---- MODULE Spec2Model ----
(***************************************************************************)
(* Signal deduplication (check_new_signals) and the Donchian breakout      *)
(* monitor of the futures day-trading system.                              *)
(*                                                                         *)
(* day_trading_system.py    ("plain"): DingTalk + e-mail notification      *)
(* day_trading_system_ex.py ("ex")   : registration with the breakout      *)
(*                                     monitor, monitor/cleanup jobs       *)
(*                                                                         *)
(* Signal timestamps are bar times (whole seconds, generate_signal takes   *)
(* them from the data feed), so the "%Y-%m-%d %H:%M:%S" text of an id      *)
(* holds the whole timestamp.  The wall clock counts hours.                *)
(***************************************************************************)
EXTENDS Integers, Sequences, FiniteSets, TLC

\* ---------------------------------------------------------------- bounds
MaxTime == 4          \* signal (bar) timestamps are 1..MaxTime
MaxCands == 2         \* longest candidate list handed to one pass
HistoryCap == 2       \* ids kept per symbol (50 in the code, scaled down)
MaxClock == 3         \* wall clock runs 0..MaxClock (hours)
MaxReg == 2           \* breakout registrations over one run
MaxPrice == 2         \* one-minute bar prices are 1..MaxPrice
MaxBars == 2          \* longest one-minute frame returned by the feed
MaxCount == 2         \* the per-entry event counters saturate here
MaxFaults == 1        \* failures of the environment over one run
MaxTicks == 6         \* calls of TripleMAStateTracker.next in one run
MaxMA == 2            \* the three moving averages take values 0..MaxMA
StateHistoryCap == 4  \* length state_history is trimmed to (50 in the code)
MaxSeriesLen == 6     \* longest series handed to detect_futures_divergence
Lookback == 1         \* lookback_bars (100 in the code, scaled down)
MinExtra == 4         \* bars required beyond lookback_bars (50 in the code)
TailBuffer == 2       \* bars at the end that are no A or X (20 in the code)
Horizon == 3          \* reach of the B and C searches (150 in the code)

\* ------------------------------------------------------ program constants
ExpiryWindow == 1     \* timedelta(hours=1)
Period == 2           \* Donchian period (20 in the code, scaled down)
MinPeriod == 40       \* ma3_period: bars delivered when next is first called
MinStateDuration == 2 \* params: min_state_duration
StabilityPeriod == 3  \* params: stability_period

Symbols == {"A"}
SignalTypes == {"LONG", "SHORT"}
NoTime == 0           \* latest_signal_time = None
BadTs == -1           \* a timestamp string that strptime/fromisoformat rejects
Unset == -1           \* triggered_time / trigger_price = None
Times == 1..MaxTime
None == [none |-> TRUE]

\* one element of result['recent_signals']
Signals ==
    [timestamp : Times, signal_type : SignalTypes]
    \cup {[timestamp |-> BadTs, signal_type |-> "LONG"]}

RECURSIVE SeqsUpTo(_, _)
SeqsUpTo(S, n) ==
    IF n = 0 THEN {<<>>}
    ELSE LET shorter == SeqsUpTo(S, n - 1)
         IN shorter \cup {Append(s, x) : s \in {t \in shorter : Len(t) = n - 1}, x \in S}

CandidateLists == SeqsUpTo(Signals, MaxCands) \ {<<>>}

InSeq(x, s) == \E i \in 1..Len(s) : s[i] = x

SeqRange(s) == {s[i] : i \in 1..Len(s)}

Last(s) == s[Len(s)]

\* ------------------------------------------------- canonical signal ids
\* f"{symbol}_{signal_time.strftime('%Y-%m-%d %H:%M:%S')}_{signal_type}"
SignalId(symbol, signal_time, signal_type) == <<symbol, signal_time, signal_type>>

\* parts = signal_id.split('_'); time_str = parts[1]; strptime(time_str)
IdTime(signal_id) == signal_id[2]

\* max(timestamps) over the ids of the loaded history, None when it is empty
RECURSIVE LatestSignalTime(_)
LatestSignalTime(ids) ==
    IF ids = <<>> THEN NoTime
    ELSE LET rest == LatestSignalTime(Tail(ids))
             t == IdTime(Head(ids))
         IN IF rest = NoTime \/ t > rest THEN t ELSE rest

IsTimeNewerAlways(signal_time, latest_signal_time) == TRUE

\* "is_time_newer": no latest time yet, or strictly later than it
IsTimeNewer(signal_time, latest_signal_time) ==
    ~(latest_signal_time # NoTime /\ signal_time <= latest_signal_time)

\* the "for signal in current_signals" loop: collects the new signals and
\* moves latest_signal_time forward as it goes
RECURSIVE CollectNew(_, _, _, _, _)
CollectNew(symbol, current_signals, ids, latest_signal_time, new_signals) ==
    IF current_signals = <<>> THEN new_signals
    ELSE LET signal == Head(current_signals)
             rest == Tail(current_signals)
             signal_time == signal.timestamp
         IN IF signal_time = BadTs
            THEN CollectNew(symbol, rest, ids, latest_signal_time, new_signals)
            ELSE LET signal_id == SignalId(symbol, signal_time, signal.signal_type)
                     is_new_signal == ~InSeq(signal_id, ids)
                     is_time_newer == IsTimeNewer(signal_time, latest_signal_time)
                 IN IF is_new_signal /\ is_time_newer
                    THEN CollectNew(symbol, rest, ids,
                                    IF latest_signal_time = NoTime
                                       \/ signal_time > latest_signal_time
                                    THEN signal_time ELSE latest_signal_time,
                                    Append(new_signals,
                                           [signal |-> signal,
                                            signal_id |-> signal_id,
                                            signal_time |-> signal_time]))
                    ELSE CollectNew(symbol, rest, ids, latest_signal_time, new_signals)

IsSortedByTime(new_signals) ==
    \A i \in 1..(Len(new_signals) - 1) :
        new_signals[i].signal_time <= new_signals[i + 1].signal_time

\* list.sort(key=signal_time): stable insertion
RECURSIVE InsertByTime(_, _)
InsertByTime(x, sorted) ==
    IF sorted = <<>> THEN <<x>>
    ELSE IF x.signal_time < Head(sorted).signal_time
         THEN <<x>> \o sorted
         ELSE <<Head(sorted)>> \o InsertByTime(x, Tail(sorted))

RECURSIVE SortByTime(_)
SortByTime(new_signals) ==
    IF new_signals = <<>> THEN <<>>
    ELSE InsertByTime(Last(new_signals),
                      SortByTime(SubSeq(new_signals, 1, Len(new_signals) - 1)))

OrderNew(new_signals) ==
    IF Len(new_signals) > 1 /\ ~IsSortedByTime(new_signals)
    THEN SortByTime(new_signals)
    ELSE new_signals

IdsOf(new_signals) == [i \in 1..Len(new_signals) |-> new_signals[i].signal_id]

KeepFirst(ids, cap) == IF Len(ids) > cap THEN SubSeq(ids, 1, cap) ELSE ids

\* history[symbol] = history[symbol][-50:]
KeepLast(ids, cap) ==
    IF Len(ids) > cap THEN SubSeq(ids, Len(ids) - cap + 1, Len(ids)) ELSE ids

AppendNothing(ids, new_signals) == ids

\* history[symbol] after the appends and the cap
AppendHistory(ids, new_signals) == KeepLast(ids \o IdsOf(new_signals), HistoryCap)

\* what one pass computes from the loaded file before any side effect
Scan(file, symbol, current_signals) ==
    LET is_first == symbol \notin DOMAIN file
        ids == IF is_first THEN <<>> ELSE file[symbol]
        new_signals == OrderNew(CollectNew(symbol, current_signals, ids,
                                           LatestSignalTime(ids), <<>>))
    IN [is_first |-> is_first,
        ids |-> ids,
        new_signals |-> new_signals,
        history |-> AppendHistory(ids, new_signals)]

\* history with history[symbol] replaced, as json.dump writes it
WithKey(file, symbol, ids) ==
    [s \in DOMAIN file \cup {symbol} |-> IF s = symbol THEN ids ELSE file[s]]

\* ------------------------------------------------ the breakout monitor
Prices == 1..MaxPrice
Bars == {b \in [high : Prices, low : Prices] : b.low <= b.high}

\* df_1min as register_signal sees it: the one-minute bars, oldest first
Frames == SeqsUpTo(Bars, MaxBars)

\* what ak.futures_zh_minute_sina gives register_signal: it raises, or returns a frame
RegisterFeeds ==
    {[kind |-> "raises", df |-> <<>>]} \cup {[kind |-> "ok", df |-> f] : f \in Frames}

\* what ak.futures_zh_minute_sina gives check_breakout: it raises, returns an
\* empty frame, or a frame whose last close is `close`
CheckFeeds ==
    {[kind |-> k, close |-> 0] : k \in {"raises", "empty"}}
    \cup {[kind |-> "ok", close |-> p] : p \in 0..(MaxPrice + 1)}

Min2(a, b) == IF a < b THEN a ELSE b

RECURSIVE SeqMax(_)
SeqMax(s) ==
    IF Len(s) = 1 THEN s[1]
    ELSE LET m == SeqMax(Tail(s)) IN IF s[1] > m THEN s[1] ELSE m

RECURSIVE SeqMin(_)
SeqMin(s) ==
    IF Len(s) = 1 THEN s[1]
    ELSE LET m == SeqMin(Tail(s)) IN IF s[1] < m THEN s[1] ELSE m

\* calculate_donchian_channels(price_data) -> (max, min)
CalculateDonchianChannels(price_data) ==
    LET recent_prices == IF Len(price_data) < Period THEN price_data
                         ELSE SubSeq(price_data, Len(price_data) - Period + 1,
                                     Len(price_data))
    IN <<SeqMax(recent_prices), SeqMin(recent_prices)>>

Highs(df) == [i \in 1..Len(df) |-> df[i].high]

Lows(df) == [i \in 1..Len(df) |-> df[i].low]

\* the channel register_signal stores: both bounds come from `highs`
Channel(df) == CalculateDonchianChannels(Highs(df))

\* the indicator DonchianChannel on the last bar of a frame of at least `period`
\* bars: upper = Highest(data.high, period), lower = Lowest(data.low, period)
DonchianChannel(df) ==
    LET bars == SubSeq(df, Len(df) - Period + 1, Len(df))
    IN [upper |-> SeqMax(Highs(bars)), lower |-> SeqMin(Lows(bars))]

\* register_signal goes on to create an entry
Registers(signal_type, fetch, df) ==
    /\ signal_type \in {"LONG", "SHORT"}
    /\ fetch = "ok"
    /\ ~(df = <<>> \/ Len(df) < Period)

\* DonchianSignal(...) as register_signal builds it; reg numbers the registrations
NewEntry(reg, sym, signal_type, entry_price, df, stamp) ==
    [reg |-> reg, symbol |-> sym, signal_type |-> signal_type,
     entry_price |-> entry_price,
     donchian_high |-> Channel(df)[1], donchian_low |-> Channel(df)[2],
     timestamp |-> stamp, status |-> "PENDING",
     triggered_time |-> Unset, trigger_price |-> Unset]

EntriesOf(active, sym) == IF sym \in DOMAIN active THEN active[sym] ELSE <<>>

\* active_signals[symbol].append(signal)
WithEntry(active, sym, entry) ==
    [s \in DOMAIN active \cup {sym} |->
        IF s = sym THEN Append(EntriesOf(active, sym), entry) ELSE active[s]]

\* "if current_time - signal.timestamp > timedelta(hours=1)"
Lapsed(signal, current_time) == current_time - signal.timestamp > ExpiryWindow

FiredAtBound(signal, current_price, current_time) ==
    /\ ~Lapsed(signal, current_time)
    /\ \/ signal.signal_type = "LONG" /\ current_price >= signal.donchian_high
       \/ signal.signal_type = "SHORT" /\ current_price <= signal.donchian_low

\* the breakout test of the loop body, reached when the entry has not lapsed
Fired(signal, current_price, current_time) ==
    /\ ~Lapsed(signal, current_time)
    /\ \/ signal.signal_type = "LONG" /\ current_price > signal.donchian_high
       \/ signal.signal_type = "SHORT" /\ current_price < signal.donchian_low

\* the entry after the loop body of check_breakout
Judged(signal, current_price, current_time) ==
    IF Lapsed(signal, current_time) THEN [signal EXCEPT !.status = "EXPIRED"]
    ELSE IF Fired(signal, current_price, current_time)
         THEN [signal EXCEPT !.status = "TRIGGERED",
                             !.triggered_time = current_time,
                             !.trigger_price = current_price]
         ELSE signal

IsPendingAlways(signal) == TRUE

IsPending(signal) == signal.status = "PENDING"

\* active_signals without the keys whose list is empty
DropEmpty(active) == [s \in {k \in DOMAIN active : active[k] # <<>>} |-> active[s]]

\* check_breakout(symbol): the in-memory set it leaves and the list it returns
CheckBreakout(active, sym, feed, current_time) ==
    IF sym \notin DOMAIN active \/ feed.kind # "ok"
    THEN [active |-> active, triggered |-> <<>>, expired |-> <<>>, ran |-> FALSE]
    ELSE LET before == active[sym]
             after == [i \in 1..Len(before) |->
                          Judged(before[i], feed.close, current_time)]
             kept == SelectSeq(after, IsPending)
             hit(e) == Fired(e, feed.close, current_time)
             old(e) == Lapsed(e, current_time)
         IN [active |-> DropEmpty([active EXCEPT ![sym] = kept]),
             triggered |-> [i \in 1..Len(SelectSeq(before, hit)) |->
                               Judged(SelectSeq(before, hit)[i], feed.close,
                                      current_time)],
             expired |-> SelectSeq(before, old),
             ran |-> TRUE]

FreshStrict(active, current_time) ==
    LET young(e) == current_time - e.timestamp < ExpiryWindow
    IN DropEmpty([s \in DOMAIN active |-> SelectSeq(active[s], young)])

\* cleanup_expired_signals: the entries it keeps
Fresh(active, current_time) ==
    LET young(e) == current_time - e.timestamp <= ExpiryWindow
    IN DropEmpty([s \in DOMAIN active |-> SelectSeq(active[s], young)])

AllEntries(active) == UNION {SeqRange(active[s]) : s \in DOMAIN active}

\* get_active_signal_count
ActiveSignalCount(active) == Cardinality({e \in AllEntries(active) : IsPending(e)})

\* ------------------------------------------------------------------ state
VARIABLES
    variant,          \* "plain": day_trading_system.py, "ex": day_trading_system_ex.py
    receiver_email,   \* args.email is set
    historyFile,      \* SIGNAL_HISTORY_FILE: symbol -> list of ids (keys: DOMAIN)
    historyReadable,  \* FALSE once a write was cut short: json.load raises
    pc,               \* position in the loop body of scheduled_signal_generation
    symbol,           \* the loop variable of scheduled_signal_generation
    recent_signals,   \* result['recent_signals'] of the current iteration
    again,            \* the market did not move since the previous iteration
    sent,             \* ids handed to DingTalk / the breakout monitor so far
    recorded,         \* ids written to the history file so far
    lastPass,         \* what the check_new_signals call of this iteration did
    active_signals,   \* donchian_monitor.active_signals: symbol -> list of entries
    activeFile,       \* ACTIVE_SIGNALS_FILE
    activeReadable,   \* FALSE once a write of ACTIVE_SIGNALS_FILE was cut short
    now,              \* datetime.now(), in hours
    nextReg,          \* registrations made so far
    toCheck,          \* symbols_to_check still ahead in monitor_all_active_signals
    fate,             \* per registration: how often it was triggered/expired/notified
    lastJob,          \* what the last monitor operation did
    faults,           \* failures of the environment so far
    current_state,    \* TripleMAStateTracker.current_state
    previous_state,   \* TripleMAStateTracker.previous_state
    state_start_idx,  \* TripleMAStateTracker.state_start_idx
    state_changes,    \* TripleMAStateTracker.state_changes
    state_history,    \* TripleMAStateTracker.state_history
    len_data,         \* len(self.data): the bars delivered so far
    lines,            \* the line buffers of the tracker, one record per tick
    ma,               \* ma10[0], ma20[0], ma40[0]: the averages on the current bar
    scan_df,          \* the frame handed to detect_futures_divergence
    signals,          \* what detect_futures_divergence returned
    scanned           \* detect_futures_divergence has returned

config == <<variant, receiver_email>>

signalVars == <<historyFile, historyReadable, pc, symbol, recent_signals, again,
                sent, recorded, lastPass>>

monitorVars == <<active_signals, activeFile, activeReadable, now, nextReg, toCheck,
                 fate, lastJob>>

trackerVars == <<current_state, previous_state, state_start_idx, state_changes,
                 state_history, len_data, lines, ma>>

scanVars == <<scan_df, signals, scanned>>

analysisVars == <<trackerVars, scanVars>>

vars == <<config, signalVars, monitorVars, faults, analysisVars>>

Variants == {"plain", "ex"}
EmptyFile == [s \in {} |-> <<>>]
NoPass == [is_first |-> FALSE, ids |-> <<>>, new |-> <<>>,
           ding |-> None, send |-> "none", email |-> None, emailOk |-> TRUE,
           reg |-> None,
           outcome |-> "none", dup |-> FALSE, late |-> FALSE,
           prevCalls |-> 0, prevOutcome |-> "none"]
NoFeed == [kind |-> "none", close |-> 0]
NoJob == [op |-> "none", sym |-> "", feed |-> NoFeed, triggered |-> <<>>,
          expired |-> <<>>, df |-> <<>>]

PayloadId(sym, signal) == SignalId(sym, signal.timestamp, signal.signal_type)

HasId(signal) == signal # None /\ signal.timestamp # BadTs

\* the ids one pass hands to the channels
Handed(sym, payloads) == {PayloadId(sym, p) : p \in {q \in payloads : HasId(q)}}

Calls(pass) == (IF pass.ding = None THEN 0 ELSE 1) + (IF pass.reg = None THEN 0 ELSE 1)

FileIds(file, sym) == IF sym \in DOMAIN file THEN file[sym] ELSE <<>>

WriteFailures == {"open_fails", "truncated"}

\* save_signal_history: open(..., 'w') then json.dump
\*   "ok"          the file holds the new history
\*   "open_fails"  open raises, the file keeps the old content
\*   "truncated"   the write stops after open truncated the file
SaveSignalHistory(history, write) ==
    /\ historyFile' = IF write = "ok" THEN history ELSE historyFile
    /\ historyReadable' = (write # "truncated")
    /\ recorded' = IF write = "ok"
                   THEN recorded \cup UNION {SeqRange(history[s]) : s \in DOMAIN history}
                   ELSE recorded

\* save_active_signals, same outcomes; json.dump writes every field of every entry
SaveActiveSignals(active, write) ==
    /\ activeFile' = IF write = "ok" THEN active ELSE activeFile
    /\ activeReadable' = (write # "truncated")

LoadActiveSignalsRestamped(file) ==
    [s \in DOMAIN file |->
        [i \in 1..Len(file[s]) |-> [file[s][i] EXCEPT !.timestamp = now]]]

\* load_active_signals: DonchianSignal(**signal_data) for every stored entry
LoadActiveSignals(file) ==
    [s \in DOMAIN file |->
        [i \in 1..Len(file[s]) |->
            [reg |-> file[s][i].reg, symbol |-> file[s][i].symbol,
             signal_type |-> file[s][i].signal_type,
             entry_price |-> file[s][i].entry_price,
             donchian_high |-> file[s][i].donchian_high,
             donchian_low |-> file[s][i].donchian_low,
             timestamp |-> file[s][i].timestamp,
             status |-> file[s][i].status,
             triggered_time |-> file[s][i].triggered_time,
             trigger_price |-> file[s][i].trigger_price]]]

\* the payload of the e-mail: the loop variable `signal` left by the for loop
EmailPayload(current_signals, latest_signal) == Last(current_signals)

NotifiesFirstRun(is_first, email) == email

\* "if not is_first and receiver_email:"
Notifies(is_first, email) == ~is_first /\ email

\* the ghost part of a pass record
Noted(pass, ding, email, reg) ==
    [pass EXCEPT !.ding = ding, !.email = email, !.reg = reg,
                 !.dup = Handed(symbol, {ding, reg}) \cap sent # {},
                 !.late = Handed(symbol, {ding, email, reg}) \cap recorded # {}]

Regs(entries) == {e.reg : e \in entries}

Bump(n) == Min2(n + 1, MaxCount)

\* fate after the entries `trig` were set TRIGGERED, `exp` EXPIRED, `told` notified
Fated(f, trig, exp, told) ==
    [r \in DOMAIN f |->
        [triggered |-> IF r \in trig THEN Bump(f[r].triggered) ELSE f[r].triggered,
         expired |-> IF r \in exp THEN Bump(f[r].expired) ELSE f[r].expired,
         notified |-> IF r \in told THEN Bump(f[r].notified) ELSE f[r].notified]]

\* register_signal(triple_filter_signal, symbol): what it does to the monitor
\*   fetch : ak.futures_zh_minute_sina returns ("ok") or raises ("raises")
\*   df    : the one-minute frame it returns
RegisterSignal(sym, signal_type, entry_price, fetch, df, write) ==
    IF Registers(signal_type, fetch, df)
    THEN LET entry == NewEntry(nextReg + 1, sym, signal_type, entry_price, df, now)
             active == WithEntry(active_signals, sym, entry)
         IN /\ nextReg < MaxReg
            /\ active_signals' = active
            /\ SaveActiveSignals(active, write)
            /\ nextReg' = nextReg + 1
            /\ fate' = [r \in 1..(nextReg + 1) |->
                           IF r \in DOMAIN fate THEN fate[r]
                           ELSE [triggered |-> 0, expired |-> 0, notified |-> 0]]
            /\ lastJob' = [NoJob EXCEPT !.op = "register", !.sym = sym, !.df = df]
            /\ UNCHANGED <<now, toCheck>>
    ELSE /\ lastJob' = [NoJob EXCEPT !.op = "register_skipped", !.sym = sym]
         /\ UNCHANGED <<active_signals, activeFile, activeReadable, now, nextReg,
                        toCheck, fate>>

\* day_trading_system.py check_new_signals(symbol, current_signals, receiver_email)
\*   send : send_to_dingding returns ("ok") or raises ("raises"); a call that
\*          raised is not counted as a delivery
\*   mail : what send_email_notification returns
CheckNewSignals(send, mail, write) ==
    /\ variant = "plain"
    /\ pc = "signals"
    /\ pc' = "checked"
    /\ LET base == [NoPass EXCEPT !.prevCalls = Calls(lastPass),
                                  !.prevOutcome = lastPass.outcome]
       IN IF ~historyReadable
          THEN \* load_signal_history raises JSONDecodeError
               /\ lastPass' = [base EXCEPT !.outcome = "raised"]
               /\ UNCHANGED <<historyFile, historyReadable, sent, recorded>>
          ELSE LET scan == Scan(historyFile, symbol, recent_signals)
                   new_signals == scan.new_signals
                   seen == [base EXCEPT !.is_first = scan.is_first, !.ids = scan.ids,
                                        !.new = IdsOf(new_signals)]
               IN IF new_signals = <<>>
                  THEN /\ lastPass' = [seen EXCEPT !.outcome = "ok"]
                       /\ UNCHANGED <<historyFile, historyReadable, sent, recorded>>
                  ELSE LET latest_signal == Last(new_signals).signal
                           notify == Notifies(scan.is_first, receiver_email)
                           emailed == EmailPayload(recent_signals, latest_signal)
                       IN IF notify /\ send = "raises"
                          THEN \* the exception leaves check_new_signals: nothing is saved
                               /\ lastPass' = [Noted(seen, latest_signal, None, None)
                                                 EXCEPT !.send = "raises",
                                                        !.outcome = "raised"]
                               /\ UNCHANGED <<historyFile, historyReadable, sent,
                                              recorded>>
                          ELSE /\ lastPass' =
                                    [(IF notify
                                      THEN Noted(seen, latest_signal, emailed, None)
                                      ELSE seen)
                                       EXCEPT
                                       !.send = IF notify THEN "ok" ELSE "none",
                                       !.emailOk = IF notify THEN mail ELSE TRUE,
                                       !.outcome = IF write = "ok" THEN "ok" ELSE "raised"]
                               /\ sent' = IF notify
                                          THEN sent \cup Handed(symbol, {latest_signal})
                                          ELSE sent
                               /\ SaveSignalHistory(
                                      WithKey(historyFile, symbol, scan.history), write)
    /\ UNCHANGED <<config, symbol, recent_signals, again, monitorVars>>

\* day_trading_system_ex.py check_new_signals(symbol, current_signals, receiver_email)
\*   entry_price, fetch, df : what register_signal reads (signal['price'], the feed)
CheckNewSignalsEx(entry_price, fetch, df, write) ==
    /\ variant = "ex"
    /\ pc = "signals"
    /\ pc' = "checked"
    /\ LET base == [NoPass EXCEPT !.prevCalls = Calls(lastPass),
                                  !.prevOutcome = lastPass.outcome]
       IN IF ~historyReadable
          THEN /\ lastPass' = [base EXCEPT !.outcome = "raised"]
               /\ UNCHANGED <<historyFile, historyReadable, sent, recorded, monitorVars>>
          ELSE LET scan == Scan(historyFile, symbol, recent_signals)
                   new_signals == scan.new_signals
                   seen == [base EXCEPT !.is_first = scan.is_first, !.ids = scan.ids,
                                        !.new = IdsOf(new_signals)]
               IN IF new_signals = <<>>
                  THEN /\ lastPass' = [seen EXCEPT !.outcome = "ok"]
                       /\ UNCHANGED <<historyFile, historyReadable, sent, recorded,
                                      monitorVars>>
                  ELSE LET latest_signal == Last(new_signals).signal
                           notify == /\ Notifies(scan.is_first, receiver_email)
                                     /\ latest_signal.signal_type \in {"LONG", "SHORT"}
                       IN /\ lastPass' =
                               [(IF notify THEN Noted(seen, None, None, latest_signal)
                                 ELSE seen)
                                  EXCEPT !.outcome = IF write = "ok" THEN "ok"
                                                     ELSE "raised"]
                          /\ sent' = IF notify
                                     THEN sent \cup Handed(symbol, {latest_signal})
                                     ELSE sent
                          /\ IF notify
                             THEN RegisterSignal(symbol, latest_signal.signal_type,
                                                 entry_price, fetch, df, "ok")
                             ELSE UNCHANGED monitorVars
                          /\ SaveSignalHistory(
                                 WithKey(historyFile, symbol, scan.history), write)
    /\ UNCHANGED <<config, symbol, recent_signals, again>>

\* result = run_strategy_with_signals(symbol): the candidates of this iteration
RunStrategy ==
    /\ UNCHANGED <<faults, analysisVars>>
    /\ pc = "idle"
    /\ toCheck = {}
    /\ pc' = "signals"
    /\ symbol' \in Symbols
    /\ recent_signals' \in CandidateLists
    /\ again' = FALSE
    /\ lastPass' = NoPass
    /\ UNCHANGED <<config, historyFile, historyReadable, sent, recorded, monitorVars>>

\* the next cycle finds the market unchanged: run_strategy returns the same list
Rescan ==
    /\ UNCHANGED <<faults, analysisVars>>
    /\ pc = "checked"
    /\ ~again
    /\ pc' = "signals"
    /\ again' = TRUE
    /\ UNCHANGED <<config, historyFile, historyReadable, symbol, recent_signals,
                   sent, recorded, lastPass, monitorVars>>

\* the loop body ends (sleep, or the except clause after a raise)
EndIteration ==
    /\ UNCHANGED <<faults, analysisVars>>
    /\ pc = "checked"
    /\ pc' = "idle"
    /\ symbol' = ""
    /\ recent_signals' = <<>>
    /\ again' = FALSE
    /\ lastPass' = NoPass
    /\ UNCHANGED <<config, historyFile, historyReadable, sent, recorded, monitorVars>>

\* ------------------------- custom_indicators/three_moving_average.py
\* state constants
CONSOLIDATION == 0
UPTREND == 1
DOWNTREND == -1
\* what calculate_ma_relationship returns before the averages have a value
NoState == 2

\* state change constants
NO_CHANGE == 0
CONSOL_TO_UPTREND == 1
CONSOL_TO_DOWNTREND == 2
DOWNTREND_TO_CONSOL == 3
UPTREND_TO_CONSOL == 4
UPTREND_TO_DOWNTREND == 5
DOWNTREND_TO_UPTREND == 6

\* the values of ma10[0], ma20[0], ma40[0] on one bar
MAValues == 0..MaxMA
MABars == [ma10 : MAValues, ma20 : MAValues, ma40 : MAValues]

\* calculate_ma_relationship: len(self.ma..) is the number of bars delivered
CalculateMaRelationship(len, bar) ==
    IF len < 1 THEN NoState
    ELSE IF bar.ma10 > bar.ma20 /\ bar.ma20 > bar.ma40 THEN UPTREND
    ELSE IF bar.ma10 < bar.ma20 /\ bar.ma20 < bar.ma40 THEN DOWNTREND
    ELSE CONSOLIDATION

ChangeTypeNoReversal(current, new_state) ==
    IF current = CONSOLIDATION /\ new_state = UPTREND THEN CONSOL_TO_UPTREND
    ELSE IF current = CONSOLIDATION /\ new_state = DOWNTREND THEN CONSOL_TO_DOWNTREND
    ELSE IF current = DOWNTREND /\ new_state = CONSOLIDATION THEN DOWNTREND_TO_CONSOL
    ELSE IF current = UPTREND /\ new_state = CONSOLIDATION THEN UPTREND_TO_CONSOL
    ELSE NO_CHANGE

\* the if/elif chain of detect_state_change
ChangeType(current, new_state) ==
    IF current = CONSOLIDATION /\ new_state = UPTREND THEN CONSOL_TO_UPTREND
    ELSE IF current = CONSOLIDATION /\ new_state = DOWNTREND THEN CONSOL_TO_DOWNTREND
    ELSE IF current = DOWNTREND /\ new_state = CONSOLIDATION THEN DOWNTREND_TO_CONSOL
    ELSE IF current = UPTREND /\ new_state = CONSOLIDATION THEN UPTREND_TO_CONSOL
    ELSE IF current = UPTREND /\ new_state = DOWNTREND THEN UPTREND_TO_DOWNTREND
    ELSE IF current = DOWNTREND /\ new_state = UPTREND THEN DOWNTREND_TO_UPTREND
    ELSE NO_CHANGE

\* detect_state_change: the change type it returns and the state_changes it leaves
\* (the date and price of a record are left out)
DetectStateChange(current, changes, len, bar) ==
    LET new_state == CalculateMaRelationship(len, bar)
    IN IF new_state = NoState \/ new_state = current
       THEN [change_type |-> NO_CHANGE, state_changes |-> changes]
       ELSE LET change_type == ChangeType(current, new_state)
            IN [change_type |-> change_type,
                state_changes |->
                    IF change_type # NO_CHANGE
                    THEN Append(changes, [from |-> current, to |-> new_state,
                                          type |-> change_type])
                    ELSE changes]

CheckStateStabilityLast(history, current) ==
    /\ Len(history) >= StabilityPeriod
    /\ history[Len(history)] = current

\* check_state_stability
CheckStateStability(history, current) ==
    /\ Len(history) >= StabilityPeriod
    /\ \A i \in (Len(history) - StabilityPeriod + 1)..Len(history) :
          history[i] = current

GetStateDurationFromOne(len, start_idx) == len - start_idx + 1

\* get_state_duration
GetStateDuration(len, start_idx) == len - start_idx

\* state_history.append(..); if len(state_history) > 50: state_history.pop(0)
AppendState(history, state) ==
    LET longer == Append(history, state)
    IN IF Len(longer) > StateHistoryCap THEN Tail(longer) ELSE longer

\* TripleMAStateTracker.__init__, before the first bar is delivered to next
TrackerInit ==
    /\ current_state = CONSOLIDATION
    /\ previous_state = CONSOLIDATION
    /\ state_start_idx = 0
    /\ state_changes = <<>>
    /\ state_history = <<>>
    /\ len_data = MinPeriod - 1
    /\ lines = <<>>
    /\ ma = [ma10 |-> 0, ma20 |-> 0, ma40 |-> 0]

\* TripleMAStateTracker.next on the bar whose averages are `bar`
next(bar) ==
    LET len == len_data + 1
        detected == DetectStateChange(current_state, state_changes, len, bar)
        state_change == detected.change_type
        changed == state_change # NO_CHANGE
        current == IF changed THEN CalculateMaRelationship(len, bar)
                   ELSE current_state
        start_idx == IF changed THEN len ELSE state_start_idx
        history == AppendState(state_history, current_state)
        state_duration == GetStateDuration(len, start_idx)
        is_stable == /\ CheckStateStability(history, current)
                     /\ state_duration >= MinStateDuration
    IN /\ len_data' = len
       /\ state_changes' = detected.state_changes
       /\ state_history' = history
       /\ previous_state' = IF changed THEN current_state ELSE previous_state
       /\ current_state' = current
       /\ state_start_idx' = start_idx
       /\ ma' = bar
       /\ lines' = Append(lines, [trend_state |-> current,
                                  state_change |-> state_change,
                                  state_duration |-> state_duration,
                                  is_stable_state |-> IF is_stable THEN 1 ELSE 0])

StrategyHandlesUnstable(row) ==
    row.state_change \in {CONSOL_TO_UPTREND, CONSOL_TO_DOWNTREND,
                          UPTREND_TO_CONSOL, DOWNTREND_TO_CONSOL}

\* TripleMAStrategy.next on the tick whose line values are `row`: it passes
\* "if not is_stable: return" and enters one of the four state change branches
\* (whether it then buys or sells depends on the position)
StrategyHandles(row) ==
    /\ row.is_stable_state # 0
    /\ row.state_change \in {CONSOL_TO_UPTREND, CONSOL_TO_DOWNTREND,
                             UPTREND_TO_CONSOL, DOWNTREND_TO_CONSOL}

\* the platform delivers the next bar to the indicator
TrackerTick ==
    /\ len_data < MinPeriod - 1 + MaxTicks
    /\ \E bar \in MABars : next(bar)
    /\ UNCHANGED <<config, signalVars, monitorVars, faults, scanVars>>

\* --------------------------------------------------- scan_divergence.py
\* MACD_Hist values of the frames: three below zero, one above
HistValues == {-12, -11, 1}

\* one row of the frame: MACD_Hist and the low and high of the bar
\* (close only feeds current_price and is left out)
Rows == {r \in [MACD_Hist : HistValues, low : Prices, high : Prices] :
            r.low <= r.high}

\* the frames of up to MaxSeriesLen rows
Series == UNION {[1..n -> Rows] : n \in 0..MaxSeriesLen}

\* macd_hist[i], low[i], high[i] with the 0-based index of the code
macd_hist(frame, i) == frame[i + 1].MACD_Hist
low(frame, i) == frame[i + 1].low
high(frame, i) == frame[i + 1].high

\* range(a, b) of the code
Range(a, b) == {i \in a..(b - 1) : TRUE}

SetMin(S) == CHOOSE x \in S : \A y \in S : x <= y
SetMax(S) == CHOOSE x \in S : \A y \in S : x >= y

\* macd_hist[i-lookback_bars:i+1]
Window(frame, i, lookback_bars) ==
    {macd_hist(frame, n) : n \in Range(i - lookback_bars, i + 1)}

\* "macd_hist[i] == np.min(macd_hist[i-lookback_bars:i+1]) and macd_hist[i] < 0"
IsPointA(frame, i, lookback_bars) ==
    /\ macd_hist(frame, i) = SetMin(Window(frame, i, lookback_bars))
    /\ macd_hist(frame, i) < 0

\* "macd_hist[i] == np.max(macd_hist[i-lookback_bars:i+1]) and macd_hist[i] > 0"
IsPointX(frame, i, lookback_bars) ==
    /\ macd_hist(frame, i) = SetMax(Window(frame, i, lookback_bars))
    /\ macd_hist(frame, i) > 0

\* "macd_hist[j] > 0 and macd_hist[j-1] <= 0"
CrossesUp(frame, j) == macd_hist(frame, j) > 0 /\ macd_hist(frame, j - 1) <= 0

\* "macd_hist[j] < 0 and macd_hist[j-1] >= 0"
CrossesDown(frame, j) == macd_hist(frame, j) < 0 /\ macd_hist(frame, j - 1) >= 0

\* "low[k] < a_price * 0.98 and macd_hist[k] > a_macd * 1.1"
IsPointC(frame, a_idx, k) ==
    /\ low(frame, k) * 100 < low(frame, a_idx) * 98
    /\ macd_hist(frame, k) * 10 > macd_hist(frame, a_idx) * 11

\* "high[k] > x_price * 1.02 and macd_hist[k] < x_macd * 0.9"
IsPointZ(frame, x_idx, k) ==
    /\ high(frame, k) * 100 > high(frame, x_idx) * 102
    /\ macd_hist(frame, k) * 10 < macd_hist(frame, x_idx) * 9

ReachFromSelf(frame, from) == Range(from, Min2(from + Horizon, Len(frame)))

\* the indices a search loop goes through: range(from + 1, min(from + 150, len(df)))
Reach(frame, from) == Range(from + 1, Min2(from + Horizon, Len(frame)))

\* where the "for j" loop stops: at the first cross, -1 when it finds none
NoIndex == -1
FirstCrossUp(frame, a_idx) ==
    LET found == {j \in Reach(frame, a_idx) : CrossesUp(frame, j)}
    IN IF found = {} THEN NoIndex ELSE SetMin(found)

FirstCrossDown(frame, x_idx) ==
    LET found == {j \in Reach(frame, x_idx) : CrossesDown(frame, j)}
    IN IF found = {} THEN NoIndex ELSE SetMin(found)

\* where the "for k" loop stops
FirstPointC(frame, a_idx, b_idx) ==
    LET found == {k \in Reach(frame, b_idx) : IsPointC(frame, a_idx, k)}
    IN IF found = {} THEN NoIndex ELSE SetMin(found)

FirstPointZ(frame, x_idx, y_idx) ==
    LET found == {k \in Reach(frame, y_idx) : IsPointZ(frame, x_idx, k)}
    IN IF found = {} THEN NoIndex ELSE SetMin(found)

\* the bullish signals the loop body appends for index i: none or one
\* (df.index[n] is taken to be n)
BullishAt(frame, i, lookback_bars) ==
    IF ~IsPointA(frame, i, lookback_bars) THEN <<>>
    ELSE LET b_idx == FirstCrossUp(frame, i)
         IN IF b_idx = NoIndex THEN <<>>
            ELSE LET k == FirstPointC(frame, i, b_idx)
                 IN IF k = NoIndex THEN <<>>
                    ELSE <<[type |-> "bullish",
                            point_a_time |-> i,
                            point_a_price |-> low(frame, i),
                            point_a_macd |-> macd_hist(frame, i),
                            point_b_time |-> b_idx,
                            point_c_time |-> k,
                            point_c_price |-> low(frame, k),
                            point_c_macd |-> macd_hist(frame, k),
                            signal_time |-> k]>>

\* the bearish signals the loop body appends for index i: none or one
BearishAt(frame, i, lookback_bars) ==
    IF ~IsPointX(frame, i, lookback_bars) THEN <<>>
    ELSE LET y_idx == FirstCrossDown(frame, i)
         IN IF y_idx = NoIndex THEN <<>>
            ELSE LET k == FirstPointZ(frame, i, y_idx)
                 IN IF k = NoIndex THEN <<>>
                    ELSE <<[type |-> "bearish",
                            point_x_time |-> i,
                            point_x_price |-> high(frame, i),
                            point_x_macd |-> macd_hist(frame, i),
                            point_y_time |-> y_idx,
                            point_z_time |-> k,
                            point_z_price |-> high(frame, k),
                            point_z_macd |-> macd_hist(frame, k),
                            signal_time |-> k]>>

\* "for i in range(lookback_bars, len(df) - 20)" from index i on
RECURSIVE ScanFrom(_, _, _)
ScanFrom(frame, i, lookback_bars) ==
    IF i >= Len(frame) - TailBuffer THEN <<>>
    ELSE BullishAt(frame, i, lookback_bars) \o BearishAt(frame, i, lookback_bars)
         \o ScanFrom(frame, i + 1, lookback_bars)

DetectFuturesDivergenceUnguarded(frame, lookback_bars) ==
    ScanFrom(frame, lookback_bars, lookback_bars)

\* detect_futures_divergence(df, lookback_bars): the rows of the frame it returns
DetectFuturesDivergence(frame, lookback_bars) ==
    IF Len(frame) < lookback_bars + MinExtra THEN <<>>
    ELSE ScanFrom(frame, lookback_bars, lookback_bars)

\* scan_single_futures: signals = detect_futures_divergence(df, lookback_bars=100)
Detect ==
    /\ ~scanned
    /\ signals' = DetectFuturesDivergence(scan_df, Lookback)
    /\ scanned' = TRUE
    /\ UNCHANGED <<config, signalVars, monitorVars, faults, trackerVars, scan_df>>

\* ------------------------------------------------------ the programs' start
\* everything but the frame handed to the divergence scan
InitPrograms ==
    /\ variant \in Variants
    /\ receiver_email \in BOOLEAN
    /\ historyFile = EmptyFile
    /\ historyReadable = TRUE
    /\ pc = "idle"
    /\ symbol = ""
    /\ recent_signals = <<>>
    /\ again = FALSE
    /\ sent = {}
    /\ recorded = {}
    /\ lastPass = NoPass
    /\ active_signals = EmptyFile
    /\ activeFile = EmptyFile
    /\ activeReadable = TRUE
    /\ now = 0
    /\ nextReg = 0
    /\ toCheck = {}
    /\ fate = <<>>
    /\ lastJob = NoJob
    /\ faults = 0
    /\ TrackerInit
    /\ signals = <<>>
    /\ scanned = FALSE

Init == InitPrograms /\ scan_df = <<>>

InitTracker == Init /\ variant = "ex" /\ receiver_email

\* TripleMAStateTracker fed bar after bar
SpecTracker == InitTracker /\ [][TrackerTick]_vars

InitDivergence == InitPrograms /\ variant = "ex" /\ receiver_email /\ scan_df \in Series

\* detect_futures_divergence applied to every frame of the bounded set
SpecDivergence == InitDivergence /\ [][Detect]_vars

\* ------------------------------------------ day_trading_system.py, no faults
PlainPass == CheckNewSignals("ok", TRUE, "ok") /\ UNCHANGED <<faults, analysisVars>>

\* a notification fails: send_to_dingding raises, or the e-mail is not sent
\* one more failure of the environment, MaxFaults at most
Fault ==
    /\ faults < MaxFaults
    /\ faults' = faults + 1
    /\ UNCHANGED analysisVars

PlainPassSendFails ==
    /\ Fault
    /\ \E send \in {"ok", "raises"}, mail \in BOOLEAN :
          /\ send = "raises" \/ ~mail
          /\ CheckNewSignals(send, mail, "ok")

PlainPassWriteFails ==
    /\ Fault
    /\ \E write \in WriteFailures : CheckNewSignals("ok", TRUE, write)

InitPlain == Init /\ variant = "plain"

NextPlain == RunStrategy \/ PlainPass \/ Rescan \/ EndIteration

NextPlainFaults == NextPlain \/ PlainPassSendFails \/ PlainPassWriteFails

SpecPlain == InitPlain /\ [][NextPlain]_vars

SpecPlainFaults == InitPlain /\ [][NextPlainFaults]_vars

\* ------------------- day_trading_system_ex.py, the signal generation job
\* the one-minute frames of the signal-side runs: too short, or Period flat bars
FlatFrames == {<<>>, [i \in 1..Period |-> [high |-> 1, low |-> 1]]}

ExPass ==
    /\ UNCHANGED <<faults, analysisVars>>
    /\ \E fetch \in {"ok", "raises"}, df \in FlatFrames :
          CheckNewSignalsEx(1, fetch, df, "ok")

ExPassWriteFails ==
    /\ Fault
    /\ \E write \in WriteFailures, df \in FlatFrames :
          CheckNewSignalsEx(1, "ok", df, write)

InitEx == Init /\ variant = "ex"

NextEx == RunStrategy \/ ExPass \/ Rescan \/ EndIteration

NextExFaults == NextEx \/ ExPassWriteFails

SpecEx == InitEx /\ [][NextEx]_vars

\* both programs, no failures
NextSignals == RunStrategy \/ PlainPass \/ ExPass \/ Rescan \/ EndIteration

SpecSignals == Init /\ [][NextSignals]_vars

SpecExFaults == InitEx /\ [][NextExFaults]_vars

\* Ctrl+C while scheduled_day_trading_task runs: KeyboardInterrupt is raised at
\* the statement being executed; "except Exception" of the loop body of
\* scheduled_signal_generation does not catch it, "except KeyboardInterrupt"
\* around the scheduler loop does, logs and the function returns
KeyboardInterruptRaised ==
    /\ pc \in {"idle", "signals", "checked"}
    /\ toCheck = {}
    /\ pc' = "exited"
    /\ UNCHANGED <<config, historyFile, historyReadable, symbol, recent_signals,
                   again, sent, recorded, lastPass, monitorVars, faults,
                   analysisVars>>

NextShutdown == NextEx \/ KeyboardInterruptRaised

\* day_trading_system_ex.py, the signal generation job with a shutdown signal
SpecShutdown == InitEx /\ [][NextShutdown]_vars

\* ------------------- day_trading_system_ex.py, the breakout monitor jobs
\* the scheduler loop is alive: schedule.run_pending() lets an exception of a
\* job leave the while loop, which catches KeyboardInterrupt only
Running == lastJob.op # "crashed"

\* a check_new_signals pass hands its latest new signal to register_signal
RegisterJob(write) ==
    /\ pc = "idle"
    /\ Running
    /\ toCheck = {}
    /\ \E sym \in Symbols, signal_type \in SignalTypes, entry_price \in Prices,
          feed \in RegisterFeeds :
          RegisterSignal(sym, signal_type, entry_price, feed.kind, feed.df, write)
    /\ UNCHANGED <<config, signalVars>>

\* cleanup_expired_signals(): saves only when it removed something; the save
\* is not inside a try, so a failed write leaves the job and the loop
CleanupExpiredSignals(write) ==
    LET active == Fresh(active_signals, now)
        gone == AllEntries(active_signals) \ AllEntries(active)
    IN /\ active_signals' = active
       /\ IF gone # {} THEN SaveActiveSignals(active, write)
          ELSE UNCHANGED <<activeFile, activeReadable>>
       /\ lastJob' = [NoJob EXCEPT !.op = IF gone # {} /\ write # "ok"
                                          THEN "crashed" ELSE "cleanup"]

\* schedule.every().hour.do(donchian_monitor.cleanup_expired_signals)
CleanupJob(write) ==
    /\ pc = "idle"
    /\ Running
    /\ toCheck = {}
    /\ CleanupExpiredSignals(write)
    /\ UNCHANGED <<config, signalVars, now, nextReg, toCheck, fate>>

MonitorStartWithoutCleanup(write) ==
    /\ pc = "idle"
    /\ Running
    /\ toCheck = {}
    /\ lastJob' = [NoJob EXCEPT !.op = "cleanup"]
    /\ toCheck' = IF ActiveSignalCount(active_signals) = 0 THEN {}
                  ELSE DOMAIN active_signals
    /\ UNCHANGED <<config, signalVars, now, nextReg, fate, active_signals,
                   activeFile, activeReadable>>

\* monitor_donchian_breakouts() up to symbols_to_check = list(active_signals.keys())
MonitorStart(write) ==
    /\ pc = "idle"
    /\ Running
    /\ toCheck = {}
    /\ CleanupExpiredSignals(write)
    /\ toCheck' = IF ~Running' \/ ActiveSignalCount(active_signals') = 0 THEN {}
                  ELSE DOMAIN active_signals'
    /\ UNCHANGED <<config, signalVars, now, nextReg, fate>>

\* one turn of the loop of monitor_all_active_signals: check_breakout(symbol), then
\* send_breakout_notification for every entry it returned
MonitorStep(write) ==
    /\ toCheck # {}
    /\ \E sym \in toCheck, feed \in CheckFeeds :
          LET result == CheckBreakout(active_signals, sym, feed, now)
              triggered == SeqRange(result.triggered)
              expired == SeqRange(result.expired)
          IN /\ active_signals' = result.active
             /\ IF result.ran THEN SaveActiveSignals(result.active, write)
                ELSE UNCHANGED <<activeFile, activeReadable>>
             /\ fate' = Fated(fate, Regs(triggered), Regs(expired), Regs(triggered))
             /\ toCheck' = toCheck \ {sym}
             /\ lastJob' = [op |-> "check", sym |-> sym, feed |-> feed,
                            triggered |-> result.triggered,
                            expired |-> result.expired]
    /\ UNCHANGED <<config, signalVars, now, nextReg>>

\* an hour passes on the wall clock
Tick ==
    /\ UNCHANGED <<faults, analysisVars>>
    /\ now < MaxClock
    /\ now' = now + 1
    /\ UNCHANGED <<config, signalVars, active_signals, activeFile, activeReadable,
                   nextReg, toCheck, fate, lastJob>>

\* the process is stopped between two jobs and started again:
\* donchian_monitor = DonchianBreakoutMonitor(period=20) loads the file
Restart ==
    /\ UNCHANGED <<faults, analysisVars>>
    /\ pc = "idle"
    /\ toCheck = {}
    /\ activeReadable
    /\ active_signals' = LoadActiveSignals(activeFile)
    /\ lastJob' = [NoJob EXCEPT !.op = "restart"]
    /\ UNCHANGED <<config, signalVars, activeFile, activeReadable, now, nextReg,
                   toCheck, fate>>

Register == RegisterJob("ok") /\ UNCHANGED <<faults, analysisVars>>

Cleanup == CleanupJob("ok") /\ UNCHANGED <<faults, analysisVars>>

StartMonitor == MonitorStart("ok") /\ UNCHANGED <<faults, analysisVars>>

CheckSymbol == MonitorStep("ok") /\ UNCHANGED <<faults, analysisVars>>

\* the same jobs when the write of ACTIVE_SIGNALS_FILE fails
RegisterWriteFails == Fault /\ \E write \in WriteFailures : RegisterJob(write)

CleanupWriteFails == Fault /\ \E write \in WriteFailures : CleanupJob(write)

StartMonitorWriteFails == Fault /\ \E write \in WriteFailures : MonitorStart(write)

CheckSymbolWriteFails == Fault /\ \E write \in WriteFailures : MonitorStep(write)

NextMonitor == Register \/ Cleanup \/ StartMonitor \/ CheckSymbol \/ Tick \/ Restart

NextMonitorFaults ==
    \/ NextMonitor
    \/ RegisterWriteFails
    \/ CleanupWriteFails
    \/ StartMonitorWriteFails
    \/ CheckSymbolWriteFails

InitMonitor == InitEx /\ receiver_email

SpecMonitor == InitMonitor /\ [][NextMonitor]_vars

SpecMonitorFaults == InitMonitor /\ [][NextMonitorFaults]_vars

\* schedule.every(donchian_interval).minutes.do(monitor_donchian_breakouts) under
\* "while True: schedule.run_pending(); time.sleep(1)": a monitor pass that is due
\* is started, and a pass that was started visits every symbol it listed
SpecMonitorLive ==
    SpecMonitor /\ WF_vars(StartMonitor) /\ WF_vars(CheckSymbol)

\* ------------------------------------------------------------------ claims
\* the ids of the new candidates of a pass that carry the greatest timestamp
GreatestNew(pass) ==
    {id \in SeqRange(pass.new) : \A o \in SeqRange(pass.new) : IdTime(o) <= IdTime(id)}

\* the payloads a pass handed to its channels
Payloads(pass) == {pass.ding, pass.email, pass.reg} \ {None}

\* the candidates of the current list that the stated rule calls new: id absent from
\* the history as loaded, timestamp later than every timestamp in it
StatedNew(pass) ==
    {PayloadId(symbol, c) :
        c \in {d \in SeqRange(recent_signals) :
                  /\ HasId(d)
                  /\ ~InSeq(PayloadId(symbol, d), pass.ids)
                  /\ \A i \in 1..Len(pass.ids) : d.timestamp > IdTime(pass.ids[i])}}

DistinctIds(current_signals) ==
    /\ \A i \in 1..Len(current_signals) : HasId(current_signals[i])
    /\ \A i, j \in 1..Len(current_signals) :
          i # j => current_signals[i] # current_signals[j]

\* C1: over any run of passes, write and notification failures included, no pass
\* hands to DingTalk or to the breakout monitor an id that an earlier pass already
\* handed over: a canonical id is dispatched at most once.
C1_DispatchedAtMostOnce == pc = "checked" => ~lastPass.dup

\* a pass that dispatches after an earlier pass lost its history write
C1_DispatchAfterFailure ==
    /\ pc = "checked"
    /\ faults > 0
    /\ lastPass.send = "ok"
    /\ lastPass.outcome = "ok"

\* C2: every breakout entry that was set TRIGGERED was handed to
\* send_breakout_notification exactly once over the whole run, restarts included, and
\* no entry was handed to it without having been triggered.
C2_NotifiedExactlyOnce ==
    \A r \in DOMAIN fate :
        fate[r].notified = (IF fate[r].triggered > 0 THEN 1 ELSE 0)

\* an entry was triggered and notified, and the process restarted after a failed write
C2_TriggeredThenRestarted ==
    /\ lastJob.op = "restart"
    /\ faults > 0
    /\ \E r \in DOMAIN fate : fate[r].triggered = 1 /\ fate[r].notified = 1

\* C3: the status of a registered entry is changed at most once (once to TRIGGERED or
\* once to EXPIRED, never both, never again), and every entry that the monitor holds
\* between two steps is PENDING and has never been given a terminal status.
C3_OneTerminalOutcome ==
    /\ \A r \in DOMAIN fate : fate[r].triggered + fate[r].expired <= 1
    /\ \A e \in AllEntries(active_signals) :
          /\ IsPending(e)
          /\ fate[e.reg].triggered + fate[e.reg].expired = 0

\* check_breakout has just run; one entry was triggered and another one expired
C3_BothOutcomesSeen ==
    /\ lastJob.op = "check"
    /\ lastJob.feed.kind = "ok"
    /\ \E r \in DOMAIN fate : fate[r].triggered = 1
    /\ \E r \in DOMAIN fate : fate[r].expired = 1

\* C4: in a pass that is not the first run of its symbol, has a receiver configured and
\* found at least one new candidate, exactly one call is made on DingTalk or on the
\* breakout monitor, and every payload handed to a channel (DingTalk, e-mail,
\* registration) is the new candidate with the greatest timestamp.
C4_PayloadIsGreatestNew ==
    (/\ pc = "checked"
     /\ lastPass.outcome = "ok"
     /\ ~lastPass.is_first
     /\ receiver_email
     /\ lastPass.new # <<>>)
    => /\ Calls(lastPass) = 1
       /\ \A p \in Payloads(lastPass) :
             HasId(p) /\ PayloadId(symbol, p) \in GreatestNew(lastPass)

\* a dispatching pass whose candidate list does not end with its latest new signal
C4_LastCandidateIsOld ==
    /\ pc = "checked"
    /\ ~lastPass.is_first
    /\ receiver_email
    /\ lastPass.new # <<>>
    /\ HasId(Last(recent_signals))
    /\ PayloadId(symbol, Last(recent_signals)) \notin SeqRange(lastPass.new)

\* C5: the candidates a pass treats as new are exactly those whose id is absent from the
\* history loaded at the start of the pass and whose timestamp is later than every
\* timestamp of that history, whatever the order of the list.
C5_NewIffAbsentAndLater ==
    (pc = "checked" /\ lastPass.outcome = "ok")
    => SeqRange(lastPass.new) = StatedNew(lastPass)

\* a pass over a list that is not in ascending time order
C5_UnorderedList ==
    /\ pc = "checked"
    /\ lastPass.outcome = "ok"
    /\ Len(recent_signals) = 2
    /\ DistinctIds(recent_signals)
    /\ recent_signals[1].timestamp > recent_signals[2].timestamp

\* C6: the pass of a symbol that has no key in the history file makes no call on
\* DingTalk, e-mail or the breakout monitor and leaves the monitor's entries and file
\* as they were.
C6_FirstRunIsSilent ==
    [][(pc = "signals" /\ pc' = "checked" /\ symbol \notin DOMAIN historyFile)
       => /\ Payloads(lastPass') = {}
          /\ sent' = sent
          /\ active_signals' = active_signals
          /\ activeFile' = activeFile
          /\ nextReg' = nextReg]_vars

\* a first run with a receiver configured that found new candidates
C6_FirstRunWithCandidates ==
    /\ pc = "checked"
    /\ lastPass.is_first
    /\ receiver_email
    /\ lastPass.new # <<>>
    /\ symbol \in DOMAIN historyFile

\* C7: the first pass of a symbol over n candidates with pairwise distinct ids, n not
\* above the cap, leaves exactly n ids in the symbol's history, whatever their order.
C7_FirstRunRecordsAll ==
    (/\ pc = "checked"
     /\ lastPass.outcome = "ok"
     /\ lastPass.is_first
     /\ DistinctIds(recent_signals)
     /\ Len(recent_signals) <= HistoryCap)
    => Len(FileIds(historyFile, symbol)) = Len(recent_signals)

\* a first run over two distinct candidates
C7_FirstRunOfTwo ==
    /\ pc = "checked"
    /\ lastPass.outcome = "ok"
    /\ lastPass.is_first
    /\ DistinctIds(recent_signals)
    /\ Len(recent_signals) = 2

\* C8: no pass hands to a channel a candidate whose id an earlier pass had written to
\* the history, also when the cap has since pushed that id out of the file.
C8_RecordedNeverDispatched == pc = "checked" => ~lastPass.late

\* a dispatching pass whose list also holds a recorded id that the cap has evicted
C8_EvictedIdOffered ==
    /\ pc = "checked"
    /\ Payloads(lastPass) # {}
    /\ \E i \in 1..Len(recent_signals) :
          /\ HasId(recent_signals[i])
          /\ PayloadId(symbol, recent_signals[i]) \in recorded
          /\ ~InSeq(PayloadId(symbol, recent_signals[i]), lastPass.ids)

\* C9: when a pass is run again with the same list, the second pass finds no new
\* signal, calls no channel and leaves the history as it was, so the two passes
\* together dispatch at most once.
C9_SameListTwice ==
    (pc = "checked" /\ again)
    => /\ lastPass.new = <<>>
       /\ Payloads(lastPass) = {}
       /\ lastPass.prevCalls <= 1
       /\ FileIds(historyFile, symbol) = lastPass.ids

\* the second of two passes over one list, the first of which dispatched
C9_SecondPassAfterDispatch ==
    /\ pc = "checked"
    /\ again
    /\ lastPass.prevCalls = 1

\* C10: when the notification of a pass fails (send_to_dingding raises, or the e-mail
\* is not sent), the ids of all its new candidates are in the persisted history when
\* the pass is over.
C10_FailedSendStillRecorded ==
    (/\ pc = "checked"
     /\ lastPass.send = "raises" \/ ~lastPass.emailOk)
    => \A i \in 1..Len(lastPass.new) :
          InSeq(lastPass.new[i], FileIds(historyFile, symbol))

\* a pass that found new candidates and whose e-mail was not sent
C10_EmailNotSent ==
    /\ pc = "checked"
    /\ ~lastPass.emailOk
    /\ lastPass.new # <<>>

\* s is the tail of t
IsSuffix(s, t) ==
    /\ Len(s) <= Len(t)
    /\ \A i \in 1..Len(s) : s[i] = t[Len(t) - Len(s) + i]

\* C11: after every pass that returned, the history of its symbol holds at most
\* HistoryCap ids, and they are the ids appended last, in the order of their appending:
\* the tail of (history as loaded, then the new ids of the pass), as long as the cap
\* allows.
C11_CapKeepsNewest ==
    (pc = "checked" /\ lastPass.outcome = "ok")
    => LET appended == lastPass.ids \o lastPass.new
           kept == FileIds(historyFile, symbol)
       IN /\ Len(kept) <= HistoryCap
          /\ IsSuffix(kept, appended)
          /\ Len(kept) = Min2(Len(appended), HistoryCap)

\* a pass whose appends pushed the history over the cap
C11_PassOverCap ==
    /\ pc = "checked"
    /\ lastPass.outcome = "ok"
    /\ lastPass.new # <<>>
    /\ Len(lastPass.ids) + Len(lastPass.new) > HistoryCap

\* C12: when check_breakout reads a price, every entry of the checked symbol gets
\* exactly this outcome: older than the window - removed as expired, not returned
\* and not notified, whatever the price; otherwise, LONG with price above
\* donchian_high or SHORT with price below donchian_low - returned as TRIGGERED with
\* trigger_price the price read, notified and removed; otherwise (price at the
\* bound included) it stays, unchanged.
C12_CheckBreakoutOutcome ==
    [][(toCheck # {} /\ lastJob'.op = "check" /\ lastJob'.feed.kind = "ok")
       => \A e \in SeqRange(EntriesOf(active_signals, lastJob'.sym)) :
             LET close == lastJob'.feed.close
                 stays == e \in SeqRange(EntriesOf(active_signals', lastJob'.sym))
                 returned == {t \in SeqRange(lastJob'.triggered) : t.reg = e.reg}
                 breaks == \/ e.signal_type = "LONG" /\ close > e.donchian_high
                           \/ e.signal_type = "SHORT" /\ close < e.donchian_low
             IN IF now - e.timestamp > ExpiryWindow
                THEN /\ ~stays
                     /\ returned = {}
                     /\ fate'[e.reg].expired = fate[e.reg].expired + 1
                     /\ fate'[e.reg].notified = fate[e.reg].notified
                     /\ fate'[e.reg].triggered = fate[e.reg].triggered
                ELSE IF breaks
                THEN /\ ~stays
                     /\ returned = {[e EXCEPT !.status = "TRIGGERED",
                                              !.triggered_time = now,
                                              !.trigger_price = close]}
                     /\ fate'[e.reg].triggered = fate[e.reg].triggered + 1
                     /\ fate'[e.reg].notified = fate[e.reg].notified + 1
                     /\ fate'[e.reg].expired = fate[e.reg].expired
                ELSE /\ stays
                     /\ returned = {}
                     /\ fate'[e.reg] = fate[e.reg]]_vars

\* check_breakout expired a LONG entry while the price was above its channel, and
\* left another entry pending with the price exactly at its bound
C12_ExpiredBeyondChannel ==
    /\ lastJob.op = "check"
    /\ lastJob.feed.kind = "ok"
    /\ \E e \in SeqRange(lastJob.expired) :
          e.signal_type = "LONG" /\ lastJob.feed.close > e.donchian_high
    /\ \E e \in SeqRange(EntriesOf(active_signals, lastJob.sym)) :
          e.signal_type = "LONG" /\ lastJob.feed.close = e.donchian_high

\* the entries a step takes out of the active set
Leaving == AllEntries(active_signals) \ AllEntries(active_signals')

\* the registrations the step has set TRIGGERED or EXPIRED
MadeTerminal == Regs(SeqRange(lastJob'.triggered)) \cup Regs(SeqRange(lastJob'.expired))

\* C13: an entry leaves the active set only in a step that has set its status to
\* TRIGGERED or EXPIRED; no step removes an entry whose status is still PENDING.
C13_LeavesOnlyWhenTerminal ==
    [][\A e \in Leaving : e.reg \in MadeTerminal]_vars

\* C13, amended: an entry leaves the active set only in a check_breakout step that
\* has set its status to TRIGGERED or EXPIRED, or in a cleanup_expired_signals step
\* when it is older than the window (its status is then still PENDING); no entry
\* that is PENDING and within its window is removed.
C13_LeavesTerminalOrAged ==
    [][\A e \in Leaving :
          \/ lastJob'.op = "check" /\ e.reg \in MadeTerminal
          \/ lastJob'.op = "cleanup" /\ now - e.timestamp > ExpiryWindow]_vars

\* cleanup_expired_signals has removed an entry that no check_breakout had judged
C13_CleanupRemovedPending ==
    /\ lastJob.op = "cleanup"
    /\ \E r \in DOMAIN fate :
          /\ fate[r].triggered = 0
          /\ fate[r].expired = 0
          /\ r \notin Regs(AllEntries(active_signals))

\* what the claim compares: per symbol the PENDING entries, each by symbol,
\* direction, channel bounds and registration timestamp
Described(active) ==
    [s \in DOMAIN active |->
        LET pending == SelectSeq(active[s], IsPending)
        IN [i \in 1..Len(pending) |->
               [symbol |-> pending[i].symbol,
                signal_type |-> pending[i].signal_type,
                donchian_high |-> pending[i].donchian_high,
                donchian_low |-> pending[i].donchian_low,
                timestamp |-> pending[i].timestamp]]]

\* C14: once register_signal, check_breakout or cleanup_expired_signals has
\* returned, the persisted file can be read and load_active_signals restores
\* from it exactly the PENDING entries held in memory, with the same symbols,
\* directions, channel bounds and registration timestamps.
C14_FileDescribesPending ==
    lastJob.op \in {"register", "check", "cleanup"}
        => /\ activeReadable
           /\ Described(LoadActiveSignals(activeFile)) = Described(active_signals)

\* C14: register_signal or check_breakout has returned after its save failed
\* with the file still readable, and the file holds another set than memory.
C14_ReturnedAfterFailedSave ==
    /\ lastJob.op \in {"register", "check"}
    /\ faults = 1
    /\ activeReadable
    /\ Described(LoadActiveSignals(activeFile)) # Described(active_signals)


\* the fields register_signal fixes for an entry
Frame(e) ==
    [entry_price |-> e.entry_price, donchian_high |-> e.donchian_high,
     donchian_low |-> e.donchian_low, timestamp |-> e.timestamp]

\* C15: in every step, an entry that is in memory or in the file before the step
\* and in memory, in the file or in the list check_breakout returns after it has
\* the same entry_price, donchian_high, donchian_low and registration timestamp:
\* check_breakout, cleanup_expired_signals, save_active_signals and a save
\* followed by a load on restart leave the four fields as register_signal set them.
C15_FrameFieldsKept ==
    [][\A e \in AllEntries(active_signals) \cup AllEntries(activeFile) :
          \A f \in AllEntries(active_signals') \cup AllEntries(activeFile')
                   \cup SeqRange(lastJob'.triggered) \cup SeqRange(lastJob'.expired) :
             f.reg = e.reg => Frame(f) = Frame(e)]_vars

\* C15: the process was restarted after two registrations; one entry was taken
\* out by check_breakout or cleanup_expired_signals, the other was saved,
\* loaded again and is older than its registration.
C15_ReloadedAfterCheck ==
    /\ lastJob.op = "restart"
    /\ nextReg = 2
    /\ \E e \in AllEntries(active_signals) :
          /\ AllEntries(active_signals) = {e}
          /\ e.timestamp < now
          /\ e.donchian_high # e.donchian_low


\* the state change code assigned to the ordered pair (old state, new state)
PairCode(old, new) ==
    CASE old = new -> NO_CHANGE
      [] old = CONSOLIDATION /\ new = UPTREND -> CONSOL_TO_UPTREND
      [] old = CONSOLIDATION /\ new = DOWNTREND -> CONSOL_TO_DOWNTREND
      [] old = DOWNTREND /\ new = CONSOLIDATION -> DOWNTREND_TO_CONSOL
      [] old = UPTREND /\ new = CONSOLIDATION -> UPTREND_TO_CONSOL
      [] old = UPTREND /\ new = DOWNTREND -> UPTREND_TO_DOWNTREND
      [] old = DOWNTREND /\ new = UPTREND -> DOWNTREND_TO_UPTREND

\* the ticks whose state_change line is non-zero
ChangeTicks(buffer) == {i \in 1..Len(buffer) : buffer[i].state_change # NO_CHANGE}

\* C16: on every tick of next, state_change is non-zero exactly when the state
\* classified from the bar differs from the state of the previous tick, it is the
\* code of the ordered pair (old, new), exactly one record {from, to} is appended
\* to state_changes on such a tick and none otherwise, and the number of records
\* equals the number of ticks with a non-zero state_change.
C16_ChangeIffStateDiffers ==
    [][len_data' = len_data + 1
       => LET old == current_state
              new == CalculateMaRelationship(len_data', ma')
              row == lines'[Len(lines')]
          IN /\ (row.state_change # NO_CHANGE) <=> (new # old)
             /\ row.state_change = PairCode(old, new)
             /\ row.trend_state = new
             /\ state_changes' =
                   IF new # old
                   THEN Append(state_changes,
                               [from |-> old, to |-> new, type |-> PairCode(old, new)])
                   ELSE state_changes
             /\ Len(state_changes') = Cardinality(ChangeTicks(lines'))]_vars

\* C16: a run with a tick without change, a change out of consolidation and a
\* reversal from uptrend straight to downtrend
C16_ReversalSeen ==
    /\ \E i \in 1..Len(lines) : lines[i].state_change = NO_CHANGE
    /\ \E i \in 1..Len(lines) : lines[i].state_change = CONSOL_TO_UPTREND
    /\ \E i \in 1..Len(lines) : lines[i].state_change = UPTREND_TO_DOWNTREND
    /\ Len(state_changes) = 2

\* C17: after every tick is_stable_state is 0 or 1; it is 1 only if state_history
\* holds at least stability_period entries, the last stability_period of them all
\* equal the current state and state_duration >= min_state_duration; it is 0
\* whenever state_duration < min_state_duration.
C17_StableOnlyIfSettled ==
    lines # <<>>
        => LET row == lines[Len(lines)]
               n == Len(state_history)
           IN /\ row.is_stable_state \in {0, 1}
              /\ row.is_stable_state = 1
                    => /\ n >= StabilityPeriod
                       /\ \A i \in (n - StabilityPeriod + 1)..n :
                             state_history[i] = current_state
                       /\ row.state_duration >= MinStateDuration
              /\ row.state_duration < MinStateDuration => row.is_stable_state = 0

\* C17: the state changed, then lasted long enough to be reported stable, after
\* a tick on which it had lasted min_state_duration and was not yet stable
C17_StableAfterChange ==
    /\ Len(lines) >= 2
    /\ state_changes # <<>>
    /\ lines[Len(lines)].is_stable_state = 1
    /\ \E i \in 1..Len(lines) :
          /\ lines[i].state_duration = MinStateDuration
          /\ lines[i].is_stable_state = 0

\* C18: state_duration is 0 on every tick with a non-zero state_change, and on
\* every other tick that has a predecessor it is one more than on the tick before.
C18_DurationResetsOrGrows ==
    \A i \in 1..Len(lines) :
        IF lines[i].state_change # NO_CHANGE
        THEN lines[i].state_duration = 0
        ELSE i > 1 => lines[i].state_duration = lines[i - 1].state_duration + 1

\* C18: a change with duration 0, followed by two ticks without change
C18_ChangeThenTwoQuietTicks ==
    \E i \in 1..Len(lines) :
        /\ i + 2 <= Len(lines)
        /\ lines[i].state_change # NO_CHANGE
        /\ lines[i].state_duration = 0
        /\ lines[i + 1].state_change = NO_CHANGE
        /\ lines[i + 2].state_duration = 2

\* the indices step 1 of the scan goes through
AnchorRange(frame) == Range(Lookback, Len(frame) - TailBuffer)

\* a bullish pattern as the claims describe it: A a trailing-window minimum
\* below zero, B the first cross above zero within reach of A, C within reach
\* of B passing the thresholds with its price below that of A and its
\* oscillator above that of A
QualifyingBullish(frame) ==
    {t \in AnchorRange(frame) \X (0..Len(frame)) \X (0..Len(frame)) :
        /\ IsPointA(frame, t[1], Lookback)
        /\ t[2] # NoIndex
        /\ t[2] = FirstCrossUp(frame, t[1])
        /\ t[3] \in Reach(frame, t[2])
        /\ IsPointC(frame, t[1], t[3])
        /\ low(frame, t[3]) < low(frame, t[1])
        /\ macd_hist(frame, t[3]) > macd_hist(frame, t[1])}

\* the mirrored bearish pattern
QualifyingBearish(frame) ==
    {t \in AnchorRange(frame) \X (0..Len(frame)) \X (0..Len(frame)) :
        /\ IsPointX(frame, t[1], Lookback)
        /\ t[2] # NoIndex
        /\ t[2] = FirstCrossDown(frame, t[1])
        /\ t[3] \in Reach(frame, t[2])
        /\ IsPointZ(frame, t[1], t[3])
        /\ high(frame, t[3]) > high(frame, t[1])
        /\ macd_hist(frame, t[3]) < macd_hist(frame, t[1])}

\* the patterns that pass the tests as they are coded
CodedBullish(frame) ==
    {t \in AnchorRange(frame) \X (0..Len(frame)) \X (0..Len(frame)) :
        /\ IsPointA(frame, t[1], Lookback)
        /\ t[2] # NoIndex
        /\ t[2] = FirstCrossUp(frame, t[1])
        /\ t[3] \in Reach(frame, t[2])
        /\ IsPointC(frame, t[1], t[3])}

Bullish(sigs) == {n \in 1..Len(sigs) : sigs[n].type = "bullish"}

\* C19: for a frame long enough to be scanned that holds exactly one bullish
\* pattern (A, B, C) and no bearish one, detect_futures_divergence returns
\* exactly one signal.
C19_PlantedGivesOneSignal ==
    (/\ scanned
     /\ Len(scan_df) >= Lookback + MinExtra
     /\ Cardinality(QualifyingBullish(scan_df)) = 1
     /\ QualifyingBearish(scan_df) = {})
        => Len(signals) = 1

\* C19: the frame holds one bullish pattern and two signals were returned
C19_PlantedAndStray ==
    /\ scanned
    /\ Cardinality(QualifyingBullish(scan_df)) = 1
    /\ QualifyingBearish(scan_df) = {}
    /\ Len(signals) = 2

\* C19, with the C test taken as it is coded: one pattern passing the coded
\* tests and no bearish one give exactly one signal, with the anchors of that
\* pattern.
C19_OneSignalAsCoded ==
    (/\ scanned
     /\ Len(scan_df) >= Lookback + MinExtra
     /\ Cardinality(CodedBullish(scan_df)) = 1
     /\ QualifyingBearish(scan_df) = {})
        => /\ Len(signals) = 1
           /\ <<signals[1].point_a_time, signals[1].point_b_time,
                signals[1].point_c_time>> \in CodedBullish(scan_df)

\* C20: every bullish signal returned has its price at C strictly below its
\* price at A and its oscillator at C strictly above its oscillator at A.
C20_BullishLowerPriceHigherOscillator ==
    scanned
        => \A n \in Bullish(signals) :
              /\ signals[n].point_c_price < signals[n].point_a_price
              /\ signals[n].point_c_macd > signals[n].point_a_macd

\* C20: a bullish signal whose oscillator at C is lower than at A
C20_OscillatorLowerLow ==
    /\ scanned
    /\ \E n \in Bullish(signals) :
          /\ signals[n].point_c_price < signals[n].point_a_price
          /\ signals[n].point_c_macd < signals[n].point_a_macd

\* C20: the part that holds, the price at C is strictly below the price at A
C20_BullishLowerPrice ==
    scanned
        => \A n \in Bullish(signals) :
              signals[n].point_c_price < signals[n].point_a_price

Bearish(sigs) == {n \in 1..Len(sigs) : sigs[n].type = "bearish"}

\* the claim's bounds on three anchor indices of a frame of n rows
AnchorsInOrder(a, b, c, n) ==
    /\ a < b /\ b < c
    /\ Lookback <= a /\ a < n - TailBuffer
    /\ b - a < Horizon
    /\ c - b < Horizon
    /\ c < n

\* C21: every returned signal has its anchors strictly ordered, A < B < C for
\* a bullish and X < Y < Z for a bearish one, with A (X) inside
\* [lookback, N - tail), B (Y) less than the reach after A and C (Z) less than
\* the reach after B.
C21_AnchorsOrderedAndBounded ==
    scanned
        => /\ \A n \in Bullish(signals) :
                 AnchorsInOrder(signals[n].point_a_time, signals[n].point_b_time,
                                signals[n].point_c_time, Len(scan_df))
           /\ \A n \in Bearish(signals) :
                 AnchorsInOrder(signals[n].point_x_time, signals[n].point_y_time,
                                signals[n].point_z_time, Len(scan_df))

\* C21: one scan returned a bullish and a bearish signal
C21_BothTypesReturned ==
    /\ scanned
    /\ Bearish(signals) # {}
    /\ Bullish(signals) # {}

\* C22: for every frame shorter than lookback + H1 + H2 rows the scan returns
\* an empty result.
C22_EmptyBelowFullReach ==
    (scanned /\ Len(scan_df) < Lookback + Horizon + Horizon) => signals = <<>>

\* C22, amended: for every frame shorter than lookback_bars plus the required
\* margin (lookback_bars + 50 in the code) the scan returns an empty result.
C22_EmptyBelowMinimum ==
    (scanned /\ Len(scan_df) < Lookback + MinExtra) => signals = <<>>

\* C22: a frame one row short of the minimum was scanned; it holds an A, the
\* cross B after it and a C that passes the tests for that A
C22_ShortFrameWithPattern ==
    /\ scanned
    /\ Len(scan_df) = Lookback + MinExtra - 1
    /\ CodedBullish(scan_df) # {}
    /\ signals = <<>>

\* C23: at every instant each persisted file holds a complete document, the
\* previous one or the new one, never a truncated or partial one.
C23_FilesNeverPartial == historyReadable /\ activeReadable

\* C23: a write of save_active_signals stopped after open(.., 'w') had
\* truncated the file
C23_ActiveFileTruncated == faults = 1 /\ ~activeReadable

\* C23, for the dedup history alone
C23_HistoryNeverPartial == historyReadable

\* C24: when the scheduler loop has exited on a shutdown signal, the pass
\* that was in flight has run to its end: the candidates it fetched have been
\* through check_new_signals and the ids it found new are in the persisted
\* history.
C24_ExitAfterPassCompleted ==
    (pc = "exited" /\ recent_signals # <<>>)
        => /\ lastPass.outcome # "none"
           /\ SeqRange(lastPass.new) \subseteq SeqRange(FileIds(historyFile, symbol))

\* C24: the loop exited with a fetched candidate list that check_new_signals
\* never saw
C24_ExitWithUncheckedCandidates ==
    /\ pc = "exited"
    /\ recent_signals # <<>>
    /\ lastPass.outcome = "none"

\* C25: no exception raised in a scheduled job ends the scheduler loop: after
\* every job the loop is still running.
C25_LoopSurvivesEveryJob == Running

\* C25: the loop has ended on the exception of a failed save in
\* cleanup_expired_signals, with an entry still waiting to be checked
C25_LoopEndedInCleanup ==
    /\ ~Running
    /\ faults = 1
    /\ AllEntries(active_signals) # {}

\* C26: is_stable_state is never 1 on a tick whose state_change is non-zero,
\* and TripleMAStrategy.next, which returns unless is_stable, enters none of
\* its state change branches on any tick.
C26_NeverStableOnChange ==
    \A i \in 1..Len(lines) :
        /\ lines[i].state_change # NO_CHANGE => lines[i].is_stable_state = 0
        /\ ~StrategyHandles(lines[i])

\* C26: a run with a change out of consolidation on one tick and a stable
\* state on a later tick
C26_ChangeThenStable ==
    \E i \in 1..Len(lines) :
        /\ lines[i].state_change \in {CONSOL_TO_UPTREND, CONSOL_TO_DOWNTREND}
        /\ \E j \in (i + 1)..Len(lines) : lines[j].is_stable_state = 1

\* C27: within one scan no two returned signals of the same type have the
\* same C point (signal_time).
C27_DistinctSignalTimes ==
    scanned
        => \A m, n \in 1..Len(signals) :
              (m # n /\ signals[m].type = signals[n].type)
                  => signals[m].signal_time # signals[n].signal_time

\* C27: two bullish signals with different A and the same C, the oscillator
\* at C above the oscillator at either A
C27_TwoTroughsOneC ==
    /\ scanned
    /\ \E m, n \in Bullish(signals) :
          /\ signals[m].point_a_time < signals[n].point_a_time
          /\ signals[m].point_c_time = signals[n].point_c_time
          /\ signals[m].point_c_macd > signals[m].point_a_macd
          /\ signals[n].point_c_macd > signals[n].point_a_macd

\* C28: the active set never holds two PENDING entries with the same symbol
\* and the same direction.
C28_OnePendingPerDirection ==
    \A e, f \in AllEntries(active_signals) :
        (/\ IsPending(e) /\ IsPending(f)
         /\ e.symbol = f.symbol
         /\ e.signal_type = f.signal_type)
            => e.reg = f.reg

\* C28: one check_breakout returned two triggered entries of the same symbol
\* and direction, each of which is notified
C28_OneBreakoutTwoTriggers ==
    /\ lastJob.op = "check"
    /\ \E e, f \in SeqRange(lastJob.triggered) :
          /\ e.reg # f.reg
          /\ e.symbol = f.symbol
          /\ e.signal_type = f.signal_type
          /\ fate[e.reg].notified = 1
          /\ fate[f.reg].notified = 1

\* C29: a registered entry carries the Donchian channel of the last `period`
\* one-minute bars: donchian_high is their highest high and donchian_low is
\* their lowest low.
C29_ChannelOfLastBars ==
    [][nextReg' # nextReg =>
          \A e \in AllEntries(active_signals') :
              e.reg = nextReg' =>
                  /\ e.donchian_high = DonchianChannel(lastJob'.df).upper
                  /\ e.donchian_low = DonchianChannel(lastJob'.df).lower]_vars

\* C29: an entry was registered from bars whose lowest low lies under the
\* lower bound the entry stores
C29_LowerBoundAboveLowestLow ==
    /\ lastJob.op = "register"
    /\ \E e \in AllEntries(active_signals) :
          /\ e.reg = nextReg
          /\ e.donchian_high = DonchianChannel(lastJob.df).upper
          /\ DonchianChannel(lastJob.df).lower < e.donchian_low

\* registration r is in the active set
Held(r) == \E e \in AllEntries(active_signals) : e.reg = r

\* registration r is in the active set and more than one hour old
HeldPastWindow(r) ==
    \E e \in AllEntries(active_signals) :
        e.reg = r /\ now - e.timestamp > ExpiryWindow

\* C30: every registered entry leaves the active set once it is more than one
\* hour old: the start of a monitor pass leaves no entry older than one hour
\* in the set, whatever the price feed returns afterwards, and under repeated
\* monitor passes an entry older than one hour is eventually gone.
C30_AgedEntryLeaves ==
    /\ [][MonitorStart("ok") =>
             \A e \in AllEntries(active_signals') :
                 now' - e.timestamp <= ExpiryWindow]_vars
    /\ \A r \in 1..MaxReg : HeldPastWindow(r) ~> ~Held(r)

\* C30: a monitor pass has just started and goes on to check a younger entry;
\* an older registration that no check ever triggered or expired is gone
C30_PassStartDroppedAgedEntry ==
    /\ lastJob.op = "cleanup"
    /\ toCheck # {}
    /\ \E r \in 1..nextReg :
          /\ ~Held(r)
          /\ fate[r].triggered = 0
          /\ fate[r].expired = 0
====
